---- MODULE Spec2Model ----
(***************************************************************************)
(* Two-layer network trained by mini-batch gradient descent (src/nn.py).   *)
(*                                                                         *)
(* Numbers are exact rationals <<num, den>> in lowest terms with den > 0;  *)
(* <<0, 0>> is the IEEE not-a-number that numpy produces for 0/0.          *)
(* A 2-d ndarray is a record [r, c, a] (rows, columns, a[i][j]); a 1-d     *)
(* ndarray is a sequence.  Shape rules (dot, broadcasting, in-place        *)
(* update) follow numpy and decide where a call raises.                    *)
(***************************************************************************)
EXTENDS Integers, Sequences, FiniteSets, TLC

(***************************** bounds **************************************)
MaxRows == 3
MaxEpochs == 2

(************************** program constants ******************************)
NumOutput == 10

(***************************** rationals ***********************************)
NaN == <<0, 0>>

Abs(n) == IF n < 0 THEN -n ELSE n

RECURSIVE GCD(_, _)
GCD(a, b) == IF b = 0 THEN a ELSE GCD(b, a % b)

Rat(n, d) ==
    IF d = 0 THEN NaN
    ELSE LET g == GCD(Abs(n), Abs(d))
             s == IF d < 0 THEN -1 ELSE 1
         IN  <<(s * n) \div g, (s * d) \div g>>

Num(n) == <<n, 1>>

IsNaN(x) == x[2] = 0

RAdd(x, y) == IF IsNaN(x) \/ IsNaN(y) THEN NaN
              ELSE LET g == GCD(x[2], y[2])
                   IN  Rat(x[1] * (y[2] \div g) + y[1] * (x[2] \div g),
                           x[2] * (y[2] \div g))

RNeg(x) == IF IsNaN(x) THEN NaN ELSE <<-x[1], x[2]>>

RSub(x, y) == RAdd(x, RNeg(y))

RMul(x, y) == IF IsNaN(x) \/ IsNaN(y) THEN NaN
              ELSE LET g1 == GCD(Abs(x[1]), y[2])
                       g2 == GCD(Abs(y[1]), x[2])
                   IN  IF g1 = 0 \/ g2 = 0 THEN Num(0)
                       ELSE Rat((x[1] \div g1) * (y[1] \div g2),
                                (x[2] \div g2) * (y[2] \div g1))

\* x / y for a numerator that is zero whenever the divisor is (0/0 = nan)
RDiv(x, y) == IF IsNaN(x) \/ IsNaN(y) \/ y[1] = 0 THEN NaN
              ELSE RMul(x, Rat(y[2], y[1]))

\* IEEE comparisons: every comparison with nan is false
RGe(x, y) == ~IsNaN(x) /\ ~IsNaN(y) /\ x[1] * y[2] >= y[1] * x[2]
RLt(x, y) == ~IsNaN(x) /\ ~IsNaN(y) /\ x[1] * y[2] < y[1] * x[2]
RGt(x, y) == RLt(y, x)

RECURSIVE RSumTo(_, _)
RSumTo(f, n) == IF n = 0 THEN Num(0) ELSE RAdd(RSumTo(f, n - 1), f[n])

\* sum of f[1..n]
RSum(f, n) == RSumTo(f, n)

(****************************** ndarrays ***********************************)
Mat(r, c, a) == [r |-> r, c |-> c, a |-> a]

Shape(A) == <<A.r, A.c>>

\* numpy broadcasting of one axis: equal lengths, or one of them is 1
Bc(m, n) == m = n \/ m = 1 \/ n = 1
BcLen(m, n) == IF m = 1 THEN n ELSE m
BcIdx(len, i) == IF len = 1 THEN 1 ELSE i

\* A.dot(B)
DotOK(A, B) == A.c = B.r
Dot(A, B) ==
    Mat(A.r, B.c,
        [i \in 1..A.r |-> [j \in 1..B.c |->
            RSum([k \in 1..A.c |-> RMul(A.a[i][k], B.a[k][j])], A.c)]])

\* A.T
T(A) == Mat(A.c, A.r, [j \in 1..A.c |-> [i \in 1..A.r |-> A.a[i][j]]])

\* elementwise binary operation on two 2-d arrays, with broadcasting
Bc2OK(A, B) == Bc(A.r, B.r) /\ Bc(A.c, B.c)
At(A, i, j) == A.a[BcIdx(A.r, i)][BcIdx(A.c, j)]

\* A + B
MAdd(A, B) ==
    LET r == BcLen(A.r, B.r)
        c == BcLen(A.c, B.c)
    IN  Mat(r, c, [i \in 1..r |-> [j \in 1..c |-> RAdd(At(A, i, j), At(B, i, j))]])

\* A - B
MSub(A, B) ==
    LET r == BcLen(A.r, B.r)
        c == BcLen(A.c, B.c)
    IN  Mat(r, c, [i \in 1..r |-> [j \in 1..c |-> RSub(At(A, i, j), At(B, i, j))]])

\* A * B and np.multiply(A, B)
MMul(A, B) ==
    LET r == BcLen(A.r, B.r)
        c == BcLen(A.c, B.c)
    IN  Mat(r, c, [i \in 1..r |-> [j \in 1..c |-> RMul(At(A, i, j), At(B, i, j))]])

\* 2-d array + 1-d array: the vector is broadcast along the rows
BcVecOK(A, b) == Bc(A.c, Len(b))
AddVec(A, b) ==
    LET c == BcLen(A.c, Len(b))
    IN  Mat(A.r, c, [i \in 1..A.r |-> [j \in 1..c |->
            RAdd(A.a[i][BcIdx(A.c, j)], b[BcIdx(Len(b), j)])]])

\* array * scalar and array / scalar
Scale(A, s) == Mat(A.r, A.c, [i \in 1..A.r |-> [j \in 1..A.c |-> RMul(A.a[i][j], s)]])
DivBy(A, s) == Mat(A.r, A.c, [i \in 1..A.r |-> [j \in 1..A.c |-> RDiv(A.a[i][j], s)]])
VScale(v, s) == [j \in 1..Len(v) |-> RMul(v[j], s)]
VDivBy(v, s) == [j \in 1..Len(v) |-> RDiv(v[j], s)]

\* np.sum(A, axis=0, keepdims=True)[0]
ColSum(A) == [j \in 1..A.c |-> RSum([i \in 1..A.r |-> A.a[i][j]], A.r)]

\* np.sum(np.sum(A, axis=1), axis=0)
TotalSum(A) == RSum(ColSum(A), A.c)

\* a[begin:end] on the rows, 0 <= begin <= end (python clamps to the length)
Min(a, b) == IF a < b THEN a ELSE b
\* off by one: the slice takes the row at `end' too
SliceInclusive(A, begin, end) ==
    LET lo == Min(begin, A.r)
        hi == Min(end + 1, A.r)
    IN  Mat(hi - lo, A.c, [i \in 1..(hi - lo) |-> A.a[lo + i]])

Slice(A, begin, end) ==
    LET lo == Min(begin, A.r)
        hi == Min(end, A.r)
    IN  Mat(hi - lo, A.c, [i \in 1..(hi - lo) |-> A.a[lo + i]])

(*************************** activation functions **************************)
\* np.exp on the arguments the code gives it (never positive, thanks to the
\* stabilisation): exp(0) = 1 exactly, and one representative value in
\* (0, 1) for every negative argument
Exp(t) == IF IsNaN(t) THEN NaN
          ELSE IF t[1] = 0 THEN Num(1)
          ELSE IF t[1] < 0 THEN Rat(1, 2)
          ELSE Num(2)

\* np.log on (0, 1]: log(1) = 0 exactly, negative and increasing below 1
Log(p) == RSub(p, Num(1))

sigmoid_elem(x) ==
    LET z == IF RGe(x, Num(0)) THEN Exp(RNeg(x))
             ELSE IF RLt(x, Num(0)) THEN Exp(x)
             ELSE Num(0)
        denominator == RAdd(Num(1), z)
        numerator == IF RLt(x, Num(0)) THEN z ELSE Num(1)
    IN  RDiv(numerator, denominator)

sigmoid(x) == Mat(x.r, x.c, [i \in 1..x.r |-> [j \in 1..x.c |-> sigmoid_elem(x.a[i][j])]])

RECURSIVE RMaxTo(_, _)
RMaxTo(f, n) ==
    IF n = 1 THEN f[1]
    ELSE LET m == RMaxTo(f, n - 1)
         IN  IF IsNaN(m) \/ IsNaN(f[n]) THEN NaN
             ELSE IF RGt(f[n], m) THEN f[n] ELSE m

softmax(x) ==
    Mat(x.r, x.c, [i \in 1..x.r |->
        LET n == RMaxTo(x.a[i], x.c)
            e == [j \in 1..x.c |-> Exp(RSub(x.a[i][j], n))]
            s == RSum(e, x.c)
        IN  [j \in 1..x.c |-> RDiv(e[j], s)]])

(****************************** parameters *********************************)
\* one draw of np.random.normal(0, 1) per entry, for a given seed
Normal(seed, i, j) == Num(((i + 2 * j + seed) % 3) - 1)

get_initial_params(input_size, num_hidden_, num_output, seed) ==
    [W1 |-> Mat(input_size, num_hidden_,
                [i \in 1..input_size |-> [j \in 1..num_hidden_ |-> Normal(seed, i, j)]]),
     W2 |-> Mat(num_hidden_, num_output,
                [i \in 1..num_hidden_ |-> [j \in 1..num_output |-> Normal(seed + 1, i, j)]]),
     b1 |-> [j \in 1..num_hidden_ |-> Num(0)],
     b2 |-> [j \in 1..num_output |-> Num(0)]]

(***************************** forward pass ********************************)
Raise(e) == [err |-> e]

\* the hidden layer and the output layer, with the error numpy raises when
\* the shapes do not fit
\* np.log(a2)
LogOf(A) == Mat(A.r, A.c, [i \in 1..A.r |-> [j \in 1..A.c |-> Log(A.a[i][j])]])

\* the activation of the hidden layer: the sigmoid of forward_prop, or the
\* 2 * sigmoid - 1 (tanh of the half) of a caller's own forward function
Activation(act, x) ==
    IF act = "sigmoid" THEN sigmoid(x)
    ELSE Mat(x.r, x.c, [i \in 1..x.r |-> [j \in 1..x.c |->
             RSub(RMul(Num(2), sigmoid_elem(x.a[i][j])), Num(1))]])

\* the shape of a1 and of a2: dot needs equal inner lengths, + broadcasts
HiddenShapeOK(data, params) ==
    data.c = params.W1.r /\ Bc(params.W1.c, Len(params.b1))
HiddenWidth(params) == BcLen(params.W1.c, Len(params.b1))
OutputShapeOK(params) ==
    HiddenWidth(params) = params.W2.r /\ Bc(params.W2.c, Len(params.b2))
OutputWidth(params) == BcLen(params.W2.c, Len(params.b2))

\* the error the forward pass raises: numpy's ValueError at the first
\* operation whose shapes do not fit (dot, +, labels * log), then 1 / n
ForwardError(data, labels, params) ==
    IF ~HiddenShapeOK(data, params) \/ ~OutputShapeOK(params) THEN "ValueError"
    ELSE IF ~(Bc(labels.r, data.r) /\ Bc(labels.c, OutputWidth(params))) THEN "ValueError"
    ELSE IF labels.r = 0 THEN "ZeroDivisionError"
    ELSE "none"

\* a1, with the activation act
Hidden(data, params, act) == Activation(act, AddVec(Dot(data, params.W1), params.b1))

\* a2
Output(a1, params) == softmax(AddVec(Dot(a1, params.W2), params.b2))

\* the average cross entropy loss
Loss(labels, a2) == RNeg(RMul(Rat(1, labels.r), TotalSum(MMul(labels, LogOf(a2)))))

Returned3(a1, a2, loss) == [err |-> "none", a1 |-> a1, a2 |-> a2, loss |-> loss]
WithOutput(labels, a1, a2) == Returned3(a1, a2, Loss(labels, a2))
WithHidden(labels, params, a1) == WithOutput(labels, a1, Output(a1, params))

Layers(data, labels, params, act) ==
    IF ForwardError(data, labels, params) # "none"
    THEN Raise(ForwardError(data, labels, params))
    ELSE WithHidden(labels, params, Hidden(data, params, act))

forward_prop(data, labels, params) == Layers(data, labels, params, "sigmoid")

\* a caller's own function with the forward_prop API: the same network with
\* the other activation in the hidden layer
forward_prop_custom(data, labels, params) == Layers(data, labels, params, "tanh")

ForwardFuncs == {"forward_prop", "custom"}

CallForward(f, data, labels, params) ==
    IF f = "forward_prop" THEN forward_prop(data, labels, params)
    ELSE forward_prop_custom(data, labels, params)

(***************************** backward pass *******************************)
\* a1 * (1 - a1)
SigmoidPrime(a1) ==
    Mat(a1.r, a1.c, [i \in 1..a1.r |-> [j \in 1..a1.c |->
        RMul(a1.a[i][j], RSub(Num(1), a1.a[i][j]))]])

\* the shapes after the forward pass: a1.T.dot(d1), d1.dot(W2.T), the
\* product with a1 * (1 - a1) and data.T.dot(d2)
BackwardShapeOK(data, labels, params, a1, a2) ==
    /\ a1.r = BcLen(a2.r, labels.r)
    /\ BcLen(a2.c, labels.c) = params.W2.c
    /\ Bc(BcLen(a2.r, labels.r), a1.r) /\ Bc(params.W2.r, a1.c)
    /\ data.r = BcLen(BcLen(a2.r, labels.r), a1.r)

\* d2, from d1
Delta2(params, a1, d1) == MMul(Dot(d1, T(params.W2)), SigmoidPrime(a1))

\* dW1, db1, dW2, db2 with n = data.shape[0]
Gradients(data, a1, d1, d2) ==
    [err |-> "none",
     grad |-> [W1 |-> DivBy(Dot(T(data), d2), Num(data.r)),
               b1 |-> ColSum(d2),
               W2 |-> DivBy(Dot(T(a1), d1), Num(data.r)),
               b2 |-> ColSum(d1)]]

GradientsFrom(data, params, a1, d1) == Gradients(data, a1, d1, Delta2(params, a1, d1))

\* lines 136-147, after the forward pass fw
BackwardFrom(data, labels, params, fw) ==
    IF fw.err # "none" THEN Raise(fw.err)
    ELSE IF ~BackwardShapeOK(data, labels, params, fw.a1, fw.a2) THEN Raise("ValueError")
    ELSE GradientsFrom(data, params, fw.a1, MSub(fw.a2, labels))

\* the forward pass taken from the forward_prop_func argument
backward_prop_via_arg(data, labels, params, forward_prop_func) ==
    BackwardFrom(data, labels, params,
                 CallForward(forward_prop_func, data, labels, params))

backward_prop(data, labels, params, forward_prop_func) ==
    BackwardFrom(data, labels, params, forward_prop(data, labels, params))

\* A += B on 2-d arrays: B must broadcast to the shape of A
InPlaceOK(A, B) == (B.r = A.r \/ B.r = 1) /\ (B.c = A.c \/ B.c = 1)

\* lines 180-193: d1, dW2, db2, d2, dW1, db1 again, then the penalty
RegDelta2(params, a1, d1) == MMul(Dot(d1, T(params.W2)), SigmoidPrime(a1))

RegGradients(data, params, reg, a1, d1, d2) ==
    [err |-> "none",
     grad |-> [W1 |-> MAdd(DivBy(Dot(T(data), d2), Num(data.r)),
                           Scale(Scale(params.W1, reg), Num(2))),
               b1 |-> ColSum(d2),
               W2 |-> MAdd(DivBy(Dot(T(a1), d1), Num(data.r)),
                           Scale(Scale(params.W2, reg), Num(2))),
               b2 |-> ColSum(d1)]]

RegGradientsFrom(data, params, reg, a1, d1) ==
    RegGradients(data, params, reg, a1, d1, RegDelta2(params, a1, d1))

RegBackwardFrom(data, labels, params, reg, fw) ==
    IF fw.err # "none" THEN Raise(fw.err)
    ELSE IF ~BackwardShapeOK(data, labels, params, fw.a1, fw.a2) THEN Raise("ValueError")
    ELSE RegGradientsFrom(data, params, reg, fw.a1, MSub(fw.a2, labels))

\* the penalty gradient without its factor 2
backward_prop_regularized_half(data, labels, params, forward_prop_func, reg) ==
    RegBackwardFrom(data, labels, params, RMul(reg, Rat(1, 2)),
                    forward_prop(data, labels, params))

backward_prop_regularized(data, labels, params, forward_prop_func, reg) ==
    RegBackwardFrom(data, labels, params, reg, forward_prop(data, labels, params))

\* the gradient functions a caller passes as backward_prop_func:
\*   backward_prop, the lambda around backward_prop_regularized (with its
\*   reg), and a caller's own function whose result lacks the key b2
Drop(g, k) == [x \in (DOMAIN g) \ {k} |-> g[x]]

backward_prop_incomplete(data, labels, params, forward_prop_func) ==
    LET r == backward_prop(data, labels, params, forward_prop_func)
    IN  IF r.err # "none" THEN r ELSE [err |-> "none", grad |-> Drop(r.grad, "b2")]

Regs == {0, 1}

BackwardFuncs ==
    {[name |-> "backward_prop", reg |-> 0], [name |-> "incomplete", reg |-> 0]}
    \cup {[name |-> "regularized", reg |-> g] : g \in Regs}

CallBackward(b, data, labels, params, forward_prop_func) ==
    IF b.name = "backward_prop" THEN backward_prop(data, labels, params, forward_prop_func)
    ELSE IF b.name = "regularized"
    THEN backward_prop_regularized(data, labels, params, forward_prop_func, Num(b.reg))
    ELSE backward_prop_incomplete(data, labels, params, forward_prop_func)

(************************* the update of one batch *************************)
VecInPlaceOK(a, b) == Len(b) = Len(a) \/ Len(b) = 1

\* params[k] -= amount, for a weight matrix and for a bias vector
SubW(res, grad, k, learning_rate) ==
    IF res.err # "none" THEN res
    ELSE IF k \notin DOMAIN grad THEN [res EXCEPT !.err = "KeyError"]
    ELSE IF ~InPlaceOK(res.params[k], grad[k]) THEN [res EXCEPT !.err = "ValueError"]
    ELSE [err |-> "none",
          params |-> [res.params EXCEPT ![k] =
                         MSub(res.params[k], Scale(grad[k], learning_rate))],
          done |-> Append(res.done, k)]

Subb(res, grad, k, learning_rate, batch_size) ==
    IF res.err # "none" THEN res
    ELSE IF k \notin DOMAIN grad THEN [res EXCEPT !.err = "KeyError"]
    ELSE IF ~VecInPlaceOK(res.params[k], grad[k]) THEN [res EXCEPT !.err = "ValueError"]
    ELSE LET amount == VScale(VDivBy(grad[k], Num(batch_size)), learning_rate)
         IN  [err |-> "none",
              params |-> [res.params EXCEPT ![k] =
                             [j \in 1..Len(res.params[k]) |->
                                 RSub(res.params[k][j], amount[BcIdx(Len(amount), j)])]],
              done |-> Append(res.done, k)]

\* the update of W2 forgotten
UpdateParamsSkip(params, grad, learning_rate, batch_size) ==
    LET r0 == [err |-> "none", params |-> params, done |-> <<>>]
        r1 == SubW(r0, grad, "W1", learning_rate)
        r3 == Subb(r1, grad, "b1", learning_rate, batch_size)
    IN  Subb(r3, grad, "b2", learning_rate, batch_size)

\* the four update statements, in their order; a statement that raises
\* leaves the earlier ones done
UpdateParams(params, grad, learning_rate, batch_size) ==
    LET r0 == [err |-> "none", params |-> params, done |-> <<>>]
        r1 == SubW(r0, grad, "W1", learning_rate)
        r2 == SubW(r1, grad, "W2", learning_rate)
        r3 == Subb(r2, grad, "b1", learning_rate, batch_size)
    IN  Subb(r3, grad, "b2", learning_rate, batch_size)

\* int(len(train_labels) / batch_size): python truncates towards zero
IntTrunc(a, b) ==
    IF (a >= 0) = (b > 0) THEN Abs(a) \div Abs(b) ELSE -(Abs(a) \div Abs(b))

\* rounding up: a trailing partial batch is counted
NumBatchesCeil(train_labels, batch_size) ==
    IntTrunc(train_labels.r + Abs(batch_size) - 1, batch_size)

NumBatches(train_labels, batch_size) == IntTrunc(train_labels.r, batch_size)

(******************************* evaluation ********************************)
\* np.argmax of a row: the first maximum, or the first nan
RECURSIVE ArgMaxTo(_, _)
ArgMaxTo(f, n) ==
    IF n = 1 THEN 1
    ELSE LET m == ArgMaxTo(f, n - 1)
         IN  IF IsNaN(f[m]) THEN m
             ELSE IF IsNaN(f[n]) \/ RGt(f[n], f[m]) THEN n ELSE m

ArgMax(A) == [i \in 1..A.r |-> ArgMaxTo(A.a[i], A.c)]

compute_accuracy(output, labels) ==
    LET p == ArgMax(output)
        q == ArgMax(labels)
        n == BcLen(Len(p), Len(q))
        hits == Cardinality({i \in 1..n : p[BcIdx(Len(p), i)] = q[BcIdx(Len(q), i)]})
    IN  Rat(hits, labels.r)

(******************************** inputs ***********************************)
\* the feature matrix: n distinct rows of dim columns
Features(n, dim) == Mat(n, dim, [i \in 1..n |-> [j \in 1..dim |-> Num(2 - i)]])

\* one-hot labels: n rows over c classes
OneHot(n, c) ==
    Mat(n, c, [i \in 1..n |-> [j \in 1..c |->
        IF j = ((i - 1) % c) + 1 THEN Num(1) ELSE Num(0)]])

InputDims == {1}
HiddenSizes == {1}
ClassCounts == {1, 2, NumOutput}
LearningRates == {1}
Seeds == {0}
BatchSizes == (-1)..(MaxRows + 1)

None == "None"
NoMetrics == [cost_train |-> <<>>, cost_dev |-> <<>>,
              accuracy_train |-> <<>>, accuracy_dev |-> <<>>]
AllKeys == <<"W1", "W2", "b1", "b2">>

VARIABLES
    train_data, train_labels, dev_data, dev_labels, num_hidden, learning_rate,
    num_epochs, batch_size, forward_prop_func, backward_prop_func, seed,
    pc, err, err_in, params, epoch, batches, i, batch_X, batch_y, grad,
    cost_train, cost_dev, accuracy_train, accuracy_dev,
    ninit, ncalls, params0, call_params, grads, grad_seen, updates, last_update,
    alt_params, alt_grad, alt_metrics, alt_err

inputs == <<train_data, train_labels, dev_data, dev_labels, num_hidden,
            learning_rate, num_epochs, batch_size, forward_prop_func,
            backward_prop_func, seed>>
metrics == <<cost_train, cost_dev, accuracy_train, accuracy_dev>>
locals == <<batches, i, batch_X, batch_y, grad>>
history == <<ninit, ncalls, params0, call_params, grads, grad_seen, updates, last_update>>
alt == <<alt_params, alt_grad, alt_metrics, alt_err>>
vars == <<inputs, pc, err, err_in, params, epoch, locals, metrics, history, alt>>

\* the other run of the pair: the same call with the other forward_prop_func
AltForward == CHOOSE f \in ForwardFuncs : f # forward_prop_func

Init ==
    /\ \E nd \in 1..MaxRows, nl \in 1..MaxRows, d \in InputDims, c \in ClassCounts :
          /\ train_data = Features(nd, d)
          /\ train_labels = OneHot(nl, c)
          /\ dev_data = Features(1, d)
          /\ dev_labels = OneHot(1, c)
    /\ num_hidden \in HiddenSizes
    /\ learning_rate \in LearningRates
    /\ num_epochs \in 0..MaxEpochs
    /\ batch_size \in BatchSizes
    /\ forward_prop_func \in ForwardFuncs
    /\ backward_prop_func \in BackwardFuncs
    /\ seed \in Seeds
    /\ pc = "start"
    /\ err = "none"
    /\ err_in = "none"
    /\ params = None
    /\ epoch = 0
    /\ batches = 0
    /\ i = 0
    /\ batch_X = None
    /\ batch_y = None
    /\ grad = None
    /\ cost_train = <<>>
    /\ cost_dev = <<>>
    /\ accuracy_train = <<>>
    /\ accuracy_dev = <<>>
    /\ ninit = 0
    /\ ncalls = 0
    /\ params0 = None
    /\ call_params = None
    /\ grads = <<>>
    /\ grad_seen = None
    /\ updates = <<>>
    /\ last_update = None
    /\ alt_params = None
    /\ alt_grad = None
    /\ alt_metrics = NoMetrics
    /\ alt_err = "none"

(******************************* nn_train **********************************)
\* for x in range(n): whether the loop has another iteration after x of them
\* off by one: one iteration too many
InRangeInclusive(x, n) == x <= n

InRange(x, n) == x < n

\* lines 243-250
Initialize ==
    /\ pc = "start"
    /\ LET dim == train_data.c
           p == get_initial_params(dim, num_hidden, NumOutput, seed)
       IN  /\ params' = p
           /\ params0' = p
           /\ alt_params' = p
    /\ ninit' = ninit + 1
    /\ pc' = "loop"
    /\ UNCHANGED <<inputs, err, err_in, epoch, locals, metrics, ncalls, call_params,
                   grads, grad_seen, updates, last_update, alt_grad, alt_metrics, alt_err>>

\* line 251 (another epoch) and lines 252, 219: the call of
\* gradient_descent_epoch and its number of batches
BeginEpoch ==
    /\ pc = "loop"
    /\ InRange(epoch, num_epochs)
    /\ call_params' = params
    /\ ncalls' = ncalls + 1
    /\ IF batch_size = 0
       THEN /\ pc' = "raised"
            /\ err' = "ZeroDivisionError"
            /\ err_in' = "gradient_descent_epoch"
            /\ alt_err' = "ZeroDivisionError"
            /\ UNCHANGED <<batches, i>>
       ELSE /\ pc' = "batch"
            /\ batches' = NumBatches(train_labels, batch_size)
            /\ i' = 0
            /\ UNCHANGED <<err, err_in, alt_err>>
    /\ UNCHANGED <<inputs, params, epoch, batch_X, batch_y, grad, metrics,
                   ninit, params0, grads, grad_seen, updates, last_update,
                   alt_params, alt_grad, alt_metrics>>

\* the state after line 229, for the result r of backward_prop_func (and
\* the result ar in the other run)
GradientStep(X, y, r, ar) ==
    /\ batch_X' = X
    /\ batch_y' = y
    /\ grads' = Append(grads, [epoch |-> epoch, i |-> i, begin |-> i * batch_size,
                               end |-> i * batch_size + batch_size, err |-> r.err])
    /\ grad_seen' = params
    /\ IF r.err # "none"
       THEN /\ pc' = "raised"
            /\ err' = r.err
            /\ err_in' = "gradient_descent_epoch"
            /\ UNCHANGED grad
       ELSE /\ pc' = "update"
            /\ grad' = r.grad
            /\ UNCHANGED <<err, err_in>>
    /\ alt_err' = ar.err
    /\ IF ar.err # "none" THEN UNCHANGED alt_grad ELSE alt_grad' = ar.grad

\* lines 222-229: the slices of batch i (begin = i * batch_size,
\* end = begin + batch_size) and its gradient
SliceGradientStep(X, y) ==
    GradientStep(X, y,
        CallBackward(backward_prop_func, X, y, params, forward_prop_func),
        CallBackward(backward_prop_func, X, y, alt_params, AltForward))

ComputeGradient ==
    /\ pc = "batch"
    /\ InRange(i, batches)
    /\ SliceGradientStep(Slice(train_data, i * batch_size, i * batch_size + batch_size),
                         Slice(train_labels, i * batch_size, i * batch_size + batch_size))
    /\ UNCHANGED <<inputs, params, epoch, batches, i, metrics, ninit, ncalls, params0,
                   call_params, updates, last_update, alt_params, alt_metrics>>

\* the state after lines 230-233, for their outcome u (au in the other run)
UpdateStep(u, au) ==
    /\ params' = u.params
    /\ alt_params' = au.params
    /\ alt_err' = au.err
    /\ IF u.err # "none"
       THEN /\ pc' = "raised"
            /\ err' = u.err
            /\ err_in' = "gradient_descent_epoch"
            /\ UNCHANGED <<i, updates, last_update>>
       ELSE /\ pc' = "batch"
            /\ i' = i + 1
            /\ updates' = Append(updates,
                   [epoch |-> epoch, i |-> i, n |-> batch_X.r, m |-> batch_y.r,
                    done |-> u.done])
            /\ last_update' = [before |-> params, after |-> u.params]
            /\ UNCHANGED <<err, err_in>>

\* lines 230-233: the update of the four parameters for batch i
ApplyUpdate ==
    /\ pc = "update"
    /\ UpdateStep(UpdateParams(params, grad, Num(learning_rate), batch_size),
                  IF alt_err = "none"
                  THEN UpdateParams(alt_params, alt_grad, Num(learning_rate), batch_size)
                  ELSE [err |-> alt_err, params |-> alt_params, done |-> <<>>])
    /\ UNCHANGED <<inputs, epoch, batches, batch_X, batch_y, grad, metrics,
                   ninit, ncalls, params0, call_params, grads, grad_seen, alt_grad,
                   alt_metrics>>

\* line 236: gradient_descent_epoch returns
EndEpoch ==
    /\ pc = "batch"
    /\ ~InRange(i, batches)
    /\ pc' = "eval"
    /\ UNCHANGED <<inputs, err, err_in, params, epoch, locals, metrics, history, alt>>

\* the state after lines 255-260, for the results tr and dv of
\* forward_prop_func on the training and the dev split (atr and adv in the
\* other run)
EvalStep(tr, dv, atr, adv) ==
    /\ IF tr.err # "none"
       THEN /\ pc' = "raised"
            /\ err' = tr.err
            /\ err_in' = "forward_prop_func"
            /\ UNCHANGED <<epoch, metrics>>
       ELSE /\ cost_train' = Append(cost_train, tr.loss)
            /\ accuracy_train' = Append(accuracy_train,
                                        compute_accuracy(tr.a2, train_labels))
            /\ IF dv.err # "none"
               THEN /\ pc' = "raised"
                    /\ err' = dv.err
                    /\ err_in' = "forward_prop_func"
                    /\ UNCHANGED <<epoch, cost_dev, accuracy_dev>>
               ELSE /\ cost_dev' = Append(cost_dev, dv.loss)
                    /\ accuracy_dev' = Append(accuracy_dev,
                                              compute_accuracy(dv.a2, dev_labels))
                    /\ epoch' = epoch + 1
                    /\ pc' = "loop"
                    /\ UNCHANGED <<err, err_in>>
    /\ IF atr.err # "none" \/ adv.err # "none"
       THEN /\ alt_err' = (IF atr.err # "none" THEN atr.err ELSE adv.err)
            /\ UNCHANGED alt_metrics
       ELSE /\ alt_metrics' =
                   [cost_train |-> Append(alt_metrics.cost_train, atr.loss),
                    cost_dev |-> Append(alt_metrics.cost_dev, adv.loss),
                    accuracy_train |-> Append(alt_metrics.accuracy_train,
                                              compute_accuracy(atr.a2, train_labels)),
                    accuracy_dev |-> Append(alt_metrics.accuracy_dev,
                                            compute_accuracy(adv.a2, dev_labels))]
            /\ UNCHANGED alt_err

\* lines 255-260: the metrics of the epoch
Evaluate ==
    /\ pc = "eval"
    /\ EvalStep(CallForward(forward_prop_func, train_data, train_labels, params),
                CallForward(forward_prop_func, dev_data, dev_labels, params),
                CallForward(AltForward, train_data, train_labels, alt_params),
                CallForward(AltForward, dev_data, dev_labels, alt_params))
    /\ UNCHANGED <<inputs, params, locals, history, alt_params, alt_grad>>

\* line 262
Return ==
    /\ pc = "loop"
    /\ ~InRange(epoch, num_epochs)
    /\ pc' = "done"
    /\ UNCHANGED <<inputs, err, err_in, params, epoch, locals, metrics, history, alt>>

Next ==
    \/ Initialize
    \/ BeginEpoch
    \/ ComputeGradient
    \/ ApplyUpdate
    \/ EndEpoch
    \/ Evaluate
    \/ Return

Spec == Init /\ [][Next]_vars

(******************************** claims ***********************************)
\* the number of rows of a well-formed dataset (features and labels agree)
RowsAgree == train_data.r = train_labels.r
N == train_labels.r

\* rows lo..hi (from 1) of an array, in their order
Rows(A, lo, hi) == Mat(hi - lo + 1, A.c, [k \in 1..(hi - lo + 1) |-> A.a[lo + k - 1]])

\* the updates made by the call of gradient_descent_epoch in epoch e
UpdatesOf(e) == SelectSeq(updates, LAMBDA u : u.epoch = e)

\* the calls of gradient_descent_epoch that have returned
Returned(e) == e < epoch \/ (e = epoch /\ pc = "eval")

\* the batch of the last gradient is still the batch of the last update
Fresh == Len(updates) > 0 /\ Len(grads) = Len(updates)

\* C1: on a dataset of N rows and with batch_size >= 1, a call of
\* gradient_descent_epoch makes exactly floor(N / batch_size) updates; update i
\* (from 0) uses exactly the rows i*batch_size .. (i+1)*batch_size - 1 of the
\* data and of the labels, in their order; so the rows from
\* floor(N / batch_size)*batch_size on are never used, batch_size = N gives
\* one update and batch_size > N none.
Thm_C1 ==
    (RowsAgree /\ batch_size >= 1) =>
        /\ \A k \in 1..Len(updates) :
              /\ (updates[k].i + 1) * batch_size <= N
              /\ updates[k].n = batch_size /\ updates[k].m = batch_size
        /\ (grads # <<>>) =>
              LET g == grads[Len(grads)]
              IN  /\ g.begin = g.i * batch_size /\ g.end = (g.i + 1) * batch_size
                  /\ batch_X = Rows(train_data, g.i * batch_size + 1, (g.i + 1) * batch_size)
                  /\ batch_y = Rows(train_labels, g.i * batch_size + 1, (g.i + 1) * batch_size)
                  /\ (Fresh => updates[Len(updates)].i = g.i)
        /\ \A e \in 0..MaxEpochs :
              Returned(e) =>
                  /\ Len(UpdatesOf(e)) = N \div batch_size
                  /\ \A k \in 1..Len(UpdatesOf(e)) : UpdatesOf(e)[k].i = k - 1
                  /\ (batch_size = N => Len(UpdatesOf(e)) = 1)
                  /\ (batch_size > N => Len(UpdatesOf(e)) = 0)

\* a call on three rows with batch_size 2 has returned after one update
Wit_C1 ==
    /\ RowsAgree /\ N = 3 /\ batch_size = 2
    /\ pc = "eval"
    /\ Len(UpdatesOf(epoch)) = 1
    /\ batch_X = Rows(train_data, 1, 2)

\* C2 as stated: with batch_size <= 0 or batch_size > N the call of
\* gradient_descent_epoch fails (it never returns) and makes no update
Orig_C2 ==
    (RowsAgree /\ (batch_size <= 0 \/ batch_size > N)) =>
        /\ pc # "eval"
        /\ \A e \in 0..MaxEpochs : ~Returned(e)
        /\ updates = <<>>

\* C2, amended: batch_size = 0 makes the call fail with a division by zero
\* and no update; a negative batch_size and a batch_size larger than the
\* number of label rows are not rejected: the call makes no update, computes
\* no gradient and raises nothing; and for batch_size >= 1 the batching
\* raises nothing, whether or not batch_size divides the number of rows.
Thm_C2 ==
    /\ (batch_size = 0) =>
          /\ pc \notin {"batch", "update", "eval"}
          /\ updates = <<>> /\ grads = <<>>
          /\ params = params0
          /\ (ncalls > 0 => (pc = "raised" /\ err = "ZeroDivisionError"
                             /\ err_in = "gradient_descent_epoch"))
    /\ (batch_size < 0 \/ batch_size > N) =>
          /\ updates = <<>> /\ grads = <<>>
          /\ params = params0
          /\ err_in # "gradient_descent_epoch"
          /\ (pc \in {"batch", "update"} => batches <= 0)
    /\ (batch_size >= 1) => err # "ZeroDivisionError"

\* a call with batch_size > N has returned normally, with no update
Wit_C2 ==
    /\ RowsAgree /\ batch_size > N
    /\ pc = "eval" /\ err = "none"
    /\ updates = <<>>

\* C3 as stated: when the row counts of features and labels disagree, or the
\* class count of the labels does not fit W2 and b2, every call fails before
\* anything is computed or changed: no gradient is obtained, no Parameter
\* changes, no loss is recorded and gradient_descent_epoch does not return.
Mismatch == ~RowsAgree \/ train_labels.c # NumOutput

Claim_C3 ==
    Mismatch =>
        /\ pc \notin {"update", "eval"}
        /\ updates = <<>>
        /\ params = params0
        /\ cost_train = <<>>

\* C4 as stated: a call of gradient_descent_epoch that fails leaves the four
\* Parameters as they were when it was called.
Claim_C4 ==
    (pc = "raised" /\ err_in = "gradient_descent_epoch") => params = call_params

\* the four metric sequences all have length n
MetricLens(n) ==
    /\ Len(cost_train) = n /\ Len(cost_dev) = n
    /\ Len(accuracy_train) = n /\ Len(accuracy_dev) = n

IsPrefix(s, t) == Len(s) <= Len(t) /\ \A k \in 1..Len(s) : s[k] = t[k]

\* the steps nn_train has left at most: every step takes one away, so that
\* the call ends
Rank ==
    IF pc \in {"done", "raised"} THEN 0
    ELSE IF pc = "start" THEN 2 + (num_epochs + 1) * (2 * MaxRows + 4)
    ELSE 1 + (num_epochs + 1 - epoch) * (2 * MaxRows + 4)
         - (IF pc = "loop" THEN 0
            ELSE IF pc \in {"batch", "update"}
            THEN 1 + 2 * i + (IF pc = "update" THEN 1 ELSE 0)
            ELSE 2 * MaxRows + 3)

Inv_C5 ==
    /\ ninit <= 1
    /\ (pc # "start" => ninit = 1)
    /\ pc \in {"start", "loop", "batch", "update", "eval", "done", "raised"}
    /\ Rank >= 0
    /\ (pc \in {"loop", "batch", "update", "eval", "done"} =>
           /\ MetricLens(epoch)
           /\ ncalls = (IF pc \in {"loop", "done"} THEN epoch ELSE epoch + 1))
    /\ (pc = "done" => (epoch = num_epochs /\ ncalls = num_epochs /\ MetricLens(num_epochs)))
    /\ ((pc = "done" /\ num_epochs = 0) => (params = params0 /\ MetricLens(0)))

Step_C5 ==
    /\ IsPrefix(cost_train, cost_train') /\ IsPrefix(cost_dev, cost_dev')
    /\ IsPrefix(accuracy_train, accuracy_train')
    /\ IsPrefix(accuracy_dev, accuracy_dev')
    /\ Len(cost_train') <= Len(cost_train) + 1
    /\ (Len(cost_train') = Len(cost_train) + 1 => (pc = "eval" /\ ncalls = epoch + 1))

\* C5: nn_train initializes the Parameters once; it runs num_epochs epochs and
\* then ends (a call that raises ends earlier); in each epoch the optimizer
\* epoch comes first and then one value is appended to each of the four metric
\* sequences, so that after k epochs each has length k, and appended values
\* never change; with num_epochs = 0 the initial Parameters and four empty
\* sequences are returned.
Thm_C5 ==
    /\ []Inv_C5
    /\ [][Step_C5]_vars
    /\ [][Rank' < Rank]_vars

\* nn_train has returned after two epochs
Wit_C5 ==
    /\ pc = "done" /\ num_epochs = 2 /\ ncalls = 2
    /\ MetricLens(2) /\ Len(updates) >= 2

\* C6: on the same data, labels and params, backward_prop_regularized and
\* backward_prop raise alike, and their gradients have equal b1 and b2 while
\* W1 and W2 differ by exactly 2*reg*W1 and 2*reg*W2; so with reg = 0 the
\* two gradients are equal in all four keys.
Thm_C6 ==
    (grads # <<>>) =>
        \A reg \in Regs :
            LET g == backward_prop(batch_X, batch_y, params, forward_prop_func)
                h == backward_prop_regularized(batch_X, batch_y, params,
                                               forward_prop_func, Num(reg))
            IN  /\ h.err = g.err
                /\ (g.err = "none" =>
                       /\ DOMAIN h.grad = {"W1", "b1", "W2", "b2"}
                       /\ h.grad.b1 = g.grad.b1
                       /\ h.grad.b2 = g.grad.b2
                       /\ h.grad.W1 = MAdd(g.grad.W1, Scale(params.W1, Num(2 * reg)))
                       /\ h.grad.W2 = MAdd(g.grad.W2, Scale(params.W2, Num(2 * reg)))
                       /\ (reg = 0 => h.grad = g.grad))

\* a regularized gradient (reg = 1) that differs from the plain one
Wit_C6 ==
    /\ pc = "update"
    /\ backward_prop_func = [name |-> "regularized", reg |-> 1]
    /\ Len(updates) >= 1
    /\ grad.W1 # backward_prop(batch_X, batch_y, params, forward_prop_func).grad.W1
    /\ grad.b1 = backward_prop(batch_X, batch_y, params, forward_prop_func).grad.b1

\* C7 as stated: the Parameters nn_train creates fit the label matrix, for
\* every class count: W2 is num_hidden x C and b2 has length C.
Claim_C7 ==
    (pc # "start") =>
        /\ params.W2.r = num_hidden
        /\ params.W2.c = train_labels.c
        /\ Len(params.b2) = train_labels.c

\* C8: the batches of a call are processed in index order, one at a time:
\* every gradient is computed from the Parameters left by the update before
\* it (the initial ones for the very first), every update changes all four
\* Parameters from exactly the Parameters its gradient has seen, and it is
\* complete before the next gradient is computed.
Thm_C8 ==
    /\ Len(grads) \in {Len(updates), Len(updates) + 1}
    /\ (pc = "update" => (Len(grads) = Len(updates) + 1 /\ grad_seen = params))
    /\ (pc = "batch" => Len(grads) = Len(updates))
    /\ (grads # <<>>) =>
          grad_seen = (IF Len(grads) = Len(updates) THEN last_update.before
                       ELSE IF Len(updates) = 0 THEN params0
                       ELSE last_update.after)
    /\ (Len(grads) = 1 => grad_seen = params0)
    /\ \A k \in 1..Len(grads) :
          grads[k].i = (IF k > 1 /\ grads[k - 1].epoch = grads[k].epoch
                        THEN grads[k - 1].i + 1 ELSE 0)
    /\ \A k \in 1..Len(updates) :
          /\ updates[k].done = AllKeys
          /\ updates[k].i = grads[k].i /\ updates[k].epoch = grads[k].epoch
    /\ (Len(updates) > 0 /\ pc # "raised") => params = last_update.after

\* the gradient of the second batch of a call sees what the first update left
Wit_C8 ==
    /\ pc = "update" /\ i = 1
    /\ Len(updates) >= 1
    /\ grad_seen = last_update.after
    /\ grad_seen # call_params

\* the sums over the rows of a batch of the per-row gradients
BatchSums(X, y, p) ==
    LET fw == forward_prop(X, y, p)
        d1 == MSub(fw.a2, y)
        d2 == MMul(Dot(d1, T(p.W2)), SigmoidPrime(fw.a1))
    IN  [W1 |-> Dot(T(X), d2), b1 |-> ColSum(d2),
         W2 |-> Dot(T(fw.a1), d1), b2 |-> ColSum(d1)]

\* p - learning_rate * (sum / count + 2 * reg * p), entry by entry
Descent(p, sum, count, reg) ==
    LET lr == Num(learning_rate)
    IN  MSub(p, Scale(MAdd(DivBy(sum, Num(count)), Scale(p, Num(2 * reg))), lr))

VDescent(p, sum, count) ==
    [j \in 1..Len(p) |-> RSub(p[j], RMul(Num(learning_rate), RDiv(sum[j], Num(count))))]

\* C9: every update of gradient_descent_epoch is made from a batch of exactly
\* batch_size rows of the data and of the labels, so that the divisor
\* n = data.shape[0] of the weight gradients equals the divisor batch_size of
\* the bias gradients.
Claim_C9 ==
    \A k \in 1..Len(updates) :
        updates[k].n = batch_size /\ updates[k].m = batch_size

\* on a dataset whose features and labels have the same number of rows the
\* two divisors are equal: each Parameter decreases by learning_rate times
\* the batch sum of its per-row gradient divided by batch_size (plus, for W1
\* and W2 under regularization, 2*reg times itself)
SameAveraging ==
    (RowsAgree /\ Len(updates) > 0) =>
        /\ \A k \in 1..Len(updates) :
              updates[k].n = batch_size /\ updates[k].m = batch_size
        /\ Fresh =>
              LET before == last_update.before
                  after == last_update.after
                  S == BatchSums(batch_X, batch_y, before)
                  reg == backward_prop_func.reg
              IN  /\ batch_X.r = batch_size
                  /\ grad.W1 = MAdd(DivBy(S.W1, Num(batch_X.r)), Scale(before.W1, Num(2 * reg)))
                  /\ grad.b1 = S.b1
                  /\ after.W1 = Descent(before.W1, S.W1, batch_size, reg)
                  /\ after.W2 = Descent(before.W2, S.W2, batch_size, reg)
                  /\ after.b1 = VDescent(before.b1, S.b1, batch_size)
                  /\ after.b2 = VDescent(before.b2, S.b2, batch_size)

\* C10: the run with the other forward_prop_func computes the same gradients
\* and has the same Parameters (and raises alike) at every step: the
\* gradient functions call the built-in forward_prop, whatever
\* forward_prop_func is; only the recorded metrics depend on it.
Thm_C10 ==
    /\ alt_params = params
    /\ alt_grad = grad
    /\ (pc # "raised" => alt_err = "none")
    /\ (pc = "raised" => alt_err = err)

\* two runs that have returned with other metrics after at least two updates
Wit_C10 ==
    /\ pc = "done" /\ Len(updates) >= 2
    /\ alt_params = params
    /\ alt_metrics.cost_train # cost_train

====
